---- MODULE Spec2Model ----
(***************************************************************************)
(* A model of src/utils/models.py: PlayerProjection and BettingAnalyzer,   *)
(* of the retry loops of OddsAPI and the session handling of OddsApp in    *)
(* src/app.py.                                                             *)
(*                                                                         *)
(* Python dicts are records whose DOMAIN is the set of keys present, so a  *)
(* missing key is a missing field.  Python floats are modelled as exact    *)
(* rationals [num, den] with den > 0; round(x, n) yields the integer       *)
(* number of 10^-n units.  An uncaught exception is the record `error`;    *)
(* what a call appended before it raised stays appended, as in Python.     *)
(***************************************************************************)
EXTENDS Integers, Sequences, FiniteSets, TLC

VARIABLES
    projections,        \* BettingAnalyzer.projections
    value_plays,        \* BettingAnalyzer.value_plays
    arb_opportunities,  \* BettingAnalyzer.arb_opportunities
    markets,            \* the argument of the latest analyze_odds call
    error,              \* the exception the latest call let escape, or NoError
    calls,              \* number of analyze_odds calls made on this analyzer
    ret,                \* the latest call of a static method and its result
    api_fn,             \* the OddsAPI method called: fetch_games or verify_key
    api_pc,             \* where that call stands: idle, attempt (about to
                        \* enter the loop body) or done
    attempt,            \* the loop variable of "for attempt in range(MAX_RETRIES)"
    http_log,           \* what each requests.get of the call led to, in order
    api_result,         \* what the call returned or raised
    api_key,            \* Config.API_KEY, read from st.secrets at every run
    session_state,      \* st.session_state, a dict that outlives the runs
    app_pc,             \* where the run of the app script stands: config,
                        \* init, verify or sidebar
    runs,               \* number of runs of the script completed
    verify_called,      \* whether the latest _verify_api called verify_key
    fetches,            \* the fetch_games calls of the latest _force_refresh
    games_table,        \* the rows of table games of data/nba_history.db, in
                        \* rowid order
    saves,              \* the save_game calls made: argument and whether it
                        \* committed
    logged,             \* number of logger.error calls of save_game
    save_ret,           \* how the latest save_game call ended
    outcomes_table,     \* the committed rows of table outcomes of omniscience.db
    uploads,            \* number of evaluate_uploaded_results calls made
    uploaded_file,      \* the argument of the latest of them
    connected,          \* whether the latest of them called sqlite3.connect
    eval_ret            \* how the latest of them ended

\* the state of the OddsAPI call
api_vars == <<api_fn, api_pc, attempt, http_log, api_result>>

\* the state of the analyzer and of its static methods
analyzer_vars ==
    <<projections, value_plays, arb_opportunities, markets, error, calls, ret>>

\* the state of the app session
app_vars == <<api_key, session_state, app_pc, runs, verify_called, fetches>>

\* the state of the two databases and of the calls that write them
db_vars == <<games_table, saves, logged, save_ret,
             outcomes_table, uploads, uploaded_file, connected, eval_ret>>

vars == <<projections, value_plays, arb_opportunities, markets, error, calls, ret,
          api_fn, api_pc, attempt, http_log, api_result,
          api_key, session_state, app_pc, runs, verify_called, fetches,
          games_table, saves, logged, save_ret,
          outcomes_table, uploads, uploaded_file, connected, eval_ret>>

-----------------------------------------------------------------------------
(* Bounds of the model.                                                    *)

\* largest |odds| handed to the static methods in SpecConvert
MaxOdds == 300
\* longest list of bookmaker quotes in one market (SpecMarket)
MaxBooks == 2
\* longest list of bookmaker quotes in one market (SpecArbitrage)
MaxArbBooks == 3
\* longest batch of markets in one analyze_odds call (Spec)
MaxMarkets == 2
\* most analyze_odds calls on one analyzer (Spec)
MaxCalls == 2
\* largest |odds| of the two quotes of a market in SpecPair
MaxPairOdds == 120
\* longest list of games in the body of a response (SpecApi)
MaxGamesData == 51
\* most runs of the app script in one session (SpecApp)
MaxRuns == 2
\* longest list of games fetch_games returns for one sport (SpecApp)
MaxSessionGames == 2
\* most save_game calls on one database (SpecSave)
MaxSaves == 3
\* most evaluate_uploaded_results calls on one database (SpecEval)
MaxUploads == 2
\* most rows of an uploaded CSV (SpecEval)
MaxCsvRows == 2

-----------------------------------------------------------------------------
(* Exact rational arithmetic standing in for Python floats.                *)

Abs(x) == IF x < 0 THEN -x ELSE x

RECURSIVE GCD(_, _)
GCD(a, b) == IF b = 0 THEN a ELSE GCD(b, a % b)

\* the rational n/d (d > 0) in lowest terms, so equal values are equal records
Rat(n, d) ==
    LET g == GCD(Abs(n), d)
    IN  [num |-> n \div g, den |-> d \div g]

RatAdd(a, b) == Rat(a.num * b.den + b.num * a.den, a.den * b.den)

RatSub(a, b) == Rat(a.num * b.den - b.num * a.den, a.den * b.den)

RatMul(a, b) == Rat(a.num * b.num, a.den * b.den)

RatLess(a, b) == a.num * b.den < b.num * a.den

\* Python round(r, n) with scale = 10^n: the nearest multiple of 1/scale,
\* a tie going to the even one; the result is the count of 1/scale units.
Round(r, scale) ==
    LET n == r.num * scale
        q == n \div r.den
        twice == 2 * (n - q * r.den)
    IN  IF twice < r.den THEN q
        ELSE IF twice > r.den THEN q + 1
        ELSE IF q % 2 = 0 THEN q ELSE q + 1

-----------------------------------------------------------------------------
(* Python values.                                                          *)

\* Python's None where a string is expected (dict.get of a missing key)
None == "<None>"

\* dict.get(key, default)
Get(d, key, default) == IF key \in DOMAIN d THEN d[key] ELSE default

NoError == [exc |-> "none", key |-> "", market |-> 0]

\* KeyError(key) escaping while the market at index i of the batch is handled
KeyError(key, i) == [exc |-> "KeyError", key |-> key, market |-> i]

Zero == Rat(0, 1)

-----------------------------------------------------------------------------
(* PlayerProjection                                                        *)

_calculate_stats(data) ==
    [hits       |-> RatAdd(RatMul(Get(data, "avg", Zero), Get(data, "ab", Zero)),
                           RatMul(Get(data, "bb", Zero), Rat(25, 100))),
     home_runs  |-> RatMul(Get(data, "hr_rate", Zero), Get(data, "ab", Zero)),
     strikeouts |-> RatMul(Get(data, "k_rate", Zero), Get(data, "ab", Zero)),
     rbis       |-> RatMul(Get(data, "rbi_rate", Zero), Get(data, "pa", Zero)),
     walks      |-> RatMul(Get(data, "bb_rate", Zero), Get(data, "pa", Zero))]

_compute_value_score(stats) ==
    RatMul(RatAdd(RatAdd(RatMul(stats.hits, Rat(3, 10)),
                         RatMul(stats.home_runs, Rat(4, 10))),
                  RatMul(stats.rbis, Rat(3, 10))),
           Rat(12, 10))

PlayerProjection(player_data) ==
    LET stats == _calculate_stats(player_data)
    IN  [name        |-> Get(player_data, "name", None),
         team        |-> Get(player_data, "team", None),
         position    |-> Get(player_data, "position", None),
         stats       |-> stats,
         value_score |-> _compute_value_score(stats)]

-----------------------------------------------------------------------------
(* BettingAnalyzer: the static methods                                     *)

\* mutant: the negative branch copies the positive formula
convert_odds_copied_branch(odds) ==
    IF odds > 0 THEN Rat(100, odds + 100)
                ELSE Rat(100, Abs(odds) + 100)

_convert_odds(odds) ==
    IF odds > 0 THEN Rat(100, odds + 100)
                ELSE Rat(Abs(odds), Abs(odds) + 100)

\* mutant: a profit needs the probabilities to sum to less than 0.98
calculate_arbitrage_with_margin(odds1, odds2) ==
    LET p1 == _convert_odds(odds1)
        p2 == _convert_odds(odds2)
    IN  IF RatLess(RatAdd(p1, p2), Rat(98, 100))
        THEN RatSub(Rat(1, 1), RatAdd(p1, p2))
        ELSE Zero

\* mutant: the first leg's probability is counted twice
calculate_arbitrage_first_leg_twice(odds1, odds2) ==
    LET p1 == _convert_odds(odds1)
    IN  IF RatLess(RatAdd(p1, p1), Rat(1, 1))
        THEN RatSub(Rat(1, 1), RatAdd(p1, p1))
        ELSE Zero

_calculate_arbitrage(odds1, odds2) ==
    LET p1 == _convert_odds(odds1)
        p2 == _convert_odds(odds2)
    IN  IF RatLess(RatAdd(p1, p2), Rat(1, 1))
        THEN RatSub(Rat(1, 1), RatAdd(p1, p2))
        ELSE Zero

-----------------------------------------------------------------------------
(* BettingAnalyzer.analyze_odds, one market at a time.  The running state  *)
(* st is [vp, arb, err]: the two result lists and the escaping exception.  *)

\* mutant: the first projection, not None, is the default of next()
FindProjection_default_first(projs, name) ==
    LET hits == {i \in 1..Len(projs) : projs[i].name = name}
    IN  IF hits = {} THEN (IF Len(projs) > 0 THEN 1 ELSE 0)
        ELSE CHOOSE i \in hits : \A j \in hits : i <= j

\* mutant: among the projections of that name, the one of highest value_score
FindProjection_best_score(projs, name) ==
    LET hits == {i \in 1..Len(projs) : projs[i].name = name}
    IN  IF hits = {} THEN 0
        ELSE CHOOSE i \in hits : \A j \in hits :
                 \/ RatLess(projs[j].value_score, projs[i].value_score)
                 \/ (projs[j].value_score = projs[i].value_score /\ i <= j)

\* next((p for p in self.projections if p.name == name), None): the index of
\* the first projection of that name, 0 for None
FindProjection(projs, name) ==
    LET hits == {i \in 1..Len(projs) : projs[i].name = name}
    IN  IF hits = {} THEN 0
        ELSE CHOOSE i \in hits : \A j \in hits : i <= j

\* mutant: a missing stat defaults to 100, not 0
StatProjection_default_100(player_proj, market) ==
    RatMul(Get(player_proj.stats, market.type, Rat(100, 1)), Rat(1, 100))

\* player_proj.stats.get(market['type'], 0) / 100
StatProjection(player_proj, market) ==
    RatMul(Get(player_proj.stats, market.type, Zero), Rat(1, 100))

\* mutant: an edge of 0.25 or more is taken for a data error, not a value
IsValuePlay_capped(stat_proj, implied_prob) ==
    /\ RatLess(RatAdd(implied_prob, Rat(5, 100)), stat_proj)
    /\ RatLess(stat_proj, RatAdd(implied_prob, Rat(25, 100)))

\* mutant: >= in place of >
IsValuePlay_or_equal(stat_proj, implied_prob) ==
    ~RatLess(stat_proj, RatAdd(implied_prob, Rat(5, 100)))

\* stat_proj > implied_prob + 0.05
IsValuePlay(stat_proj, implied_prob) ==
    RatLess(RatAdd(implied_prob, Rat(5, 100)), stat_proj)

\* the dict appended to value_plays
ValuePlay(player_proj, market, book, stat_proj, implied_prob) ==
    [player |-> player_proj.name,
     prop   |-> market.type,
     odds   |-> book.odds,
     edge   |-> Round(RatSub(stat_proj, implied_prob), 1000),
     book   |-> book.bookmaker]

\* the body of "for book in market.get('markets', [])", from book k on
RECURSIVE ScanBooks(_, _, _, _, _)
ScanBooks(market, player_proj, k, i, st) ==
    LET books == Get(market, "markets", <<>>)
    IN  IF k > Len(books) THEN st
        ELSE LET book == books[k]
             IN  IF "odds" \notin DOMAIN book
                 THEN [st EXCEPT !.err = KeyError("odds", i)]
                 ELSE IF "type" \notin DOMAIN market
                 THEN [st EXCEPT !.err = KeyError("type", i)]
                 ELSE LET implied_prob == _convert_odds(book.odds)
                          stat_proj == StatProjection(player_proj, market)
                      IN  IF ~IsValuePlay(stat_proj, implied_prob)
                          THEN ScanBooks(market, player_proj, k + 1, i, st)
                          ELSE IF "bookmaker" \notin DOMAIN book
                          THEN [st EXCEPT !.err = KeyError("bookmaker", i)]
                          ELSE ScanBooks(market, player_proj, k + 1, i,
                                   [st EXCEPT !.vp = Append(@,
                                       ValuePlay(player_proj, market, book,
                                                 stat_proj, implied_prob))])

\* mutant: only the order (long, short) counts
OppositeSigns_long_first(odds1, odds2) ==
    odds1 > 0 /\ odds2 < 0

\* odds1 > 0 and odds2 < 0, or odds1 < 0 and odds2 > 0
OppositeSigns(odds1, odds2) ==
    (odds1 > 0 /\ odds2 < 0) \/ (odds1 < 0 /\ odds2 > 0)

\* mutant: the profit is stored as a fraction, not as a percentage
ArbOpportunity_fraction(market, q1, q2, arb) ==
    [player |-> market.player,
     prop   |-> market.type,
     book1  |-> q1.bookmaker,
     book2  |-> q2.bookmaker,
     odds1  |-> q1.odds,
     odds2  |-> q2.odds,
     profit |-> Round(arb, 100)]

\* the dict appended to arb_opportunities
ArbOpportunity(market, q1, q2, arb) ==
    [player |-> market.player,
     prop   |-> market.type,
     book1  |-> q1.bookmaker,
     book2  |-> q2.bookmaker,
     odds1  |-> q1.odds,
     odds2  |-> q2.odds,
     profit |-> Round(RatMul(arb, Rat(100, 1)), 100)]

\* the nested loops of _check_arbitrage over odds, from the pair (a, b) on
RECURSIVE ScanPairs(_, _, _, _, _, _)
ScanPairs(market, odds, a, b, i, st) ==
    IF a > Len(odds) THEN st
    ELSE IF b > Len(odds) THEN ScanPairs(market, odds, a + 1, a + 2, i, st)
    ELSE IF ~OppositeSigns(odds[a].odds, odds[b].odds)
    THEN ScanPairs(market, odds, a, b + 1, i, st)
    ELSE LET arb == _calculate_arbitrage(odds[a].odds, odds[b].odds)
         IN  IF ~RatLess(Zero, arb)
             THEN ScanPairs(market, odds, a, b + 1, i, st)
             ELSE IF "player" \notin DOMAIN market
             THEN [st EXCEPT !.err = KeyError("player", i)]
             ELSE IF "type" \notin DOMAIN market
             THEN [st EXCEPT !.err = KeyError("type", i)]
             ELSE ScanPairs(market, odds, a, b + 1, i,
                      [st EXCEPT !.arb = Append(@,
                          ArbOpportunity(market, odds[a], odds[b], arb))])

\* mutant: a market with fewer than two priced quotes is an error
check_arbitrage_needs_two_quotes(market, i, st) ==
    LET books == Get(market, "markets", <<>>)
        with_odds == SelectSeq(books, LAMBDA b : "odds" \in DOMAIN b)
    IN  IF \E k \in 1..Len(with_odds) : "bookmaker" \notin DOMAIN with_odds[k]
        THEN [st EXCEPT !.err = KeyError("bookmaker", i)]
        ELSE IF Len(with_odds) < 2
        THEN [st EXCEPT !.err = [exc |-> "ValueError", key |-> "", market |-> i]]
        ELSE ScanPairs(market, with_odds, 1, 2, i, st)

\* the list of (bookmaker, odds) of the quotes holding 'odds', then the
\* nested loops over it
_check_arbitrage(market, i, st) ==
    LET books == Get(market, "markets", <<>>)
        with_odds == SelectSeq(books, LAMBDA b : "odds" \in DOMAIN b)
    IN  IF \E k \in 1..Len(with_odds) : "bookmaker" \notin DOMAIN with_odds[k]
        THEN [st EXCEPT !.err = KeyError("bookmaker", i)]
        ELSE ScanPairs(market, with_odds, 1, 2, i, st)

\* self._check_arbitrage(market) once the loop over the books has ended:
\* not reached when the loop raised
AfterScan(market, i, scanned) ==
    IF scanned.err # NoError THEN scanned
    ELSE _check_arbitrage(market, i, scanned)

\* mutant: a market is skipped once a value play of its player is collected
AnalyzeMarket_one_play_per_player(projs, market, i, st) ==
    LET p == FindProjection(projs, Get(market, "player", None))
    IN  IF p = 0 THEN st
        ELSE IF \E k \in 1..Len(st.vp) : st.vp[k].player = projs[p].name THEN st
        ELSE AfterScan(market, i, ScanBooks(market, projs[p], 1, i, st))

\* one iteration of "for market in markets", for the market at index i
AnalyzeMarket(projs, market, i, st) ==
    LET p == FindProjection(projs, Get(market, "player", None))
    IN  IF p = 0 THEN st
        ELSE AfterScan(market, i, ScanBooks(market, projs[p], 1, i, st))

\* "for market in markets", from index i on; an exception ends the loop
RECURSIVE RunMarkets(_, _, _, _)
RunMarkets(projs, batch, i, st) ==
    IF i > Len(batch) \/ st.err # NoError THEN st
    ELSE RunMarkets(projs, batch, i + 1, AnalyzeMarket(projs, batch[i], i, st))

\* mutant: a call on an analyzer that already holds results drops them
\* instead of analysing
analyze_odds_drops_on_rerun(projs, vp, arb, batch) ==
    IF vp # <<>> \/ arb # <<>>
    THEN [vp |-> <<>>, arb |-> <<>>, err |-> NoError]
    ELSE RunMarkets(projs, batch, 1, [vp |-> vp, arb |-> arb, err |-> NoError])

\* the analyzer after analyze_odds(batch), from result lists vp and arb
analyze_odds(projs, vp, arb, batch) ==
    RunMarkets(projs, batch, 1, [vp |-> vp, arb |-> arb, err |-> NoError])

-----------------------------------------------------------------------------
(* OddsAPI (src/app.py): the retry loops of fetch_games and verify_key.    *)
(* One attempt is one pass through the loop body, with one requests.get;   *)
(* what the request led to is the outcome o, an input of the attempt.      *)

\* Config.MAX_GAMES
MAX_GAMES == 50
\* Config.MAX_RETRIES
MAX_RETRIES == 3

Min(a, b) == IF a < b THEN a ELSE b

\* what a call returned or raised; NoResult while it has done neither
NoResult == [kind |-> "none", value |-> <<>>]
Return(value) == [kind |-> "return", value |-> value]
Raise(exc) == [kind |-> "raise", value |-> exc]

\* requests.get raised exc: a requests.exceptions.RequestException or any
\* other Exception
GetRaised(exc) ==
    [kind |-> "raised", exc |-> exc, status |-> 0,
     json_exc |-> "none", games_data |-> <<>>]

\* requests.get returned a response of that status; response.json() raises
\* json_exc or returns games_data
Response(status, json_exc, games_data) ==
    [kind |-> "response", exc |-> "none", status |-> status,
     json_exc |-> json_exc, games_data |-> games_data]

\* response.ok: the status is below 400
ok(o) == o.status < 400

\* Game(data) raises when data is no dict (data.get fails, and __init__
\* re-raises); otherwise every field is read with a default
GameRaises(data) == ~data.is_dict

Game(data) == [id |-> data.id, home |-> "Unknown", away |-> "Unknown"]

\* the loop goes on: the next attempt, or past the end of range(MAX_RETRIES)
\* the statement after the loop, which returns after_loop
Continue(att, after_loop) ==
    IF att + 1 < MAX_RETRIES
    THEN [pc |-> "attempt", attempt |-> att + 1, result |-> NoResult]
    ELSE [pc |-> "done", attempt |-> att, result |-> Return(after_loop)]

\* the call ends in this attempt
Done(att, result) == [pc |-> "done", attempt |-> att, result |-> result]

\* the except clauses of fetch_games, for exc raised inside the try
fetch_games_except(att, exc) ==
    IF exc = "RequestException"
    THEN IF att = MAX_RETRIES - 1 THEN Done(att, Return(<<>>))
                                  ELSE Continue(att, <<>>)
    ELSE Done(att, Return(<<>>))

\* mutant: an ok response with empty data is retried like a failed one
fetch_games_attempt_retries_empty(att, o) ==
    IF o.kind = "raised" THEN fetch_games_except(att, o.exc)
    ELSE IF ok(o) /\ (o.json_exc # "none" \/ o.games_data # <<>>)
    THEN IF o.json_exc # "none" THEN fetch_games_except(att, o.json_exc)
         ELSE LET n == Min(Len(o.games_data), MAX_GAMES)
              IN  IF \E k \in 1..n : GameRaises(o.games_data[k])
                  THEN fetch_games_except(att, "Exception")
                  ELSE Done(att, Return([k \in 1..n |-> Game(o.games_data[k])]))
    ELSE IF att < MAX_RETRIES - 1 THEN Continue(att, <<>>)
    ELSE Done(att, Return(<<>>))

\* one pass through the loop body of fetch_games
fetch_games_attempt(att, o) ==
    IF o.kind = "raised" THEN fetch_games_except(att, o.exc)
    ELSE IF ok(o)
    THEN IF o.json_exc # "none" THEN fetch_games_except(att, o.json_exc)
         ELSE IF o.games_data = <<>> THEN Done(att, Return(<<>>))
         ELSE LET n == Min(Len(o.games_data), MAX_GAMES)
              IN  IF \E k \in 1..n : GameRaises(o.games_data[k])
                  THEN fetch_games_except(att, "Exception")
                  ELSE Done(att, Return([k \in 1..n |-> Game(o.games_data[k])]))
    ELSE IF att < MAX_RETRIES - 1 THEN Continue(att, <<>>)
    ELSE Done(att, Return(<<>>))

\* mutant: a 401 is retried like any other status
verify_key_attempt_retries_401(att, o) ==
    IF o.kind = "raised"
    THEN IF o.exc = "RequestException"
         THEN IF att = MAX_RETRIES - 1 THEN Done(att, Return(FALSE))
                                       ELSE Continue(att, FALSE)
         ELSE Done(att, Raise(o.exc))
    ELSE IF o.status = 200 THEN Done(att, Return(TRUE))
    ELSE IF att < MAX_RETRIES - 1 THEN Continue(att, FALSE)
    ELSE Done(att, Return(FALSE))

\* one pass through the loop body of verify_key; an exception that is no
\* RequestException is caught nowhere in verify_key
verify_key_attempt(att, o) ==
    IF o.kind = "raised"
    THEN IF o.exc = "RequestException"
         THEN IF att = MAX_RETRIES - 1 THEN Done(att, Return(FALSE))
                                       ELSE Continue(att, FALSE)
         ELSE Done(att, Raise(o.exc))
    ELSE IF o.status = 200 THEN Done(att, Return(TRUE))
    ELSE IF o.status = 401 THEN Done(att, Return(FALSE))
    ELSE IF att < MAX_RETRIES - 1 THEN Continue(att, FALSE)
    ELSE Done(att, Return(FALSE))

-----------------------------------------------------------------------------
(* Inputs.                                                                 *)

\* a dict with no key
EmptyDict == [k \in {} |-> None]

\* {key: value} when present, {} otherwise
Field(key, value, present) == IF present THEN key :> value ELSE EmptyDict

\* raw player_data dicts handed to PlayerProjection
PlayerA55 == [name |-> "A", avg |-> Rat(25, 100), ab |-> Rat(220, 1)]
PlayerA35 == [name |-> "A", avg |-> Rat(25, 100), ab |-> Rat(140, 1)]
PlayerB65 ==
    [name |-> "B", avg |-> Rat(25, 100), ab |-> Rat(240, 1), bb |-> Rat(20, 1),
     hr_rate |-> Rat(5, 100), rbi_rate |-> Rat(10, 100), pa |-> Rat(260, 1)]
PlayerUnnamed == [avg |-> Rat(25, 100), ab |-> Rat(220, 1)]

\* the lists of player_data an analyzer is built from
ProjectionInputs ==
    { <<>>,
      <<PlayerA55>>,
      <<PlayerA35, PlayerA55>>,
      <<PlayerB65, PlayerA55>>,
      <<PlayerUnnamed>> }

Books == {"FanDuel", "DraftKings"}

OddsVals == {-110, -100, 0, 100, 120, 250}

\* bookmaker quotes: well formed, without 'odds', without 'bookmaker'
Quotes ==
    {[bookmaker |-> b, odds |-> o] : b \in Books, o \in OddsVals}
    \cup {[bookmaker |-> "FanDuel"], [odds |-> 120], [odds |-> -110]}

\* all sequences over S of length at most n
SeqsUpTo(S, n) == UNION {[1..k -> S] : k \in 0..n}

\* what the 'player' and 'type' keys of a market hold; None: the key is missing
MarketPlayers == {"A", "C", None}
MarketTypes == {"hits", "steals", None}

Market(player, type, has_books, books) ==
    Field("player", player, player # None)
    @@ Field("type", type, type # None)
    @@ Field("markets", books, has_books)

\* single markets of SpecMarket
RichMarkets ==
    {Market(p, t, TRUE, qs) :
        p \in MarketPlayers, t \in MarketTypes, qs \in SeqsUpTo(Quotes, MaxBooks)}
    \cup {Market(p, t, FALSE, <<>>) : p \in MarketPlayers, t \in MarketTypes}

\* markets of the batches of Spec: two that yield results, one whose player
\* has no projection, one whose quote has no 'odds'
BatchMarkets ==
    { Market("A", "hits", TRUE, <<[bookmaker |-> "FanDuel", odds |-> 120],
                                  [bookmaker |-> "DraftKings", odds |-> -110]>>),
      Market("A", "hits", TRUE, <<[bookmaker |-> "DraftKings", odds |-> -110],
                                  [bookmaker |-> "FanDuel", odds |-> 250]>>),
      Market("C", "hits", TRUE, <<[bookmaker |-> "FanDuel", odds |-> 120],
                                  [bookmaker |-> "DraftKings", odds |-> -110]>>),
      Market("A", "hits", TRUE, <<[bookmaker |-> "FanDuel"]>>) }

Batches == SeqsUpTo(BatchMarkets, MaxMarkets)

ArbOddsVals == {-110, -100, 0, 100, 120}

ArbQuotes ==
    {[bookmaker |-> b, odds |-> o] : b \in Books, o \in ArbOddsVals}
    \cup {[bookmaker |-> "FanDuel"], [odds |-> 120]}

\* single markets of SpecArbitrage
ArbMarkets ==
    {Market(p, t, TRUE, qs) :
        p \in {"A", None}, t \in {"hits", None}, qs \in SeqsUpTo(ArbQuotes, MaxArbBooks)}

\* markets of SpecPair: two well-formed quotes of any odds up to MaxPairOdds
PairMarkets ==
    {Market("A", "hits", TRUE, <<[bookmaker |-> "FanDuel", odds |-> o1],
                                 [bookmaker |-> "DraftKings", odds |-> o2]>>) :
        o1, o2 \in (-MaxPairOdds)..MaxPairOdds}

\* what requests.get or response.json() raises
Exceptions == {"RequestException", "Exception"}

\* status codes of a response: two below 400, the rejected key, a server error
Statuses == {200, 204, 401, 500}

\* a list of n game dicts; when bad is one of 1..n, the element at bad is no dict
GamesData(n, bad) ==
    [k \in 1..n |-> IF k = bad THEN [is_dict |-> FALSE, id |-> 0]
                                ELSE [is_dict |-> TRUE, id |-> k]]

\* what an attempt of fetch_games can meet: the body of a response that is
\* not ok is not read
FetchOutcomes ==
    {GetRaised(e) : e \in Exceptions}
    \cup {Response(s, "none", <<>>) : s \in Statuses}
    \cup {Response(s, e, <<>>) : s \in {x \in Statuses : x < 400}, e \in Exceptions}
    \cup UNION {{Response(s, "none", GamesData(n, bad)) : bad \in {0, 1, n}} :
                   s \in {x \in Statuses : x < 400}, n \in 1..MaxGamesData}

\* what an attempt of verify_key can meet: the body is not parsed
VerifyOutcomes ==
    {GetRaised(e) : e \in Exceptions}
    \cup {Response(s, "none", <<>>) : s \in Statuses}

\* no static method called yet
NoCall == [fn |-> "none", args |-> <<>>, value |-> Zero]

-----------------------------------------------------------------------------
(* OddsApp (src/app.py): the session state across runs of the script.      *)
(* st.session_state is a dict; last_refresh holds the number of the run    *)
(* that refreshed, 0 standing for None.  OddsAPI.verify_key and            *)
(* OddsAPI.fetch_games are taken by their results.                         *)

\* Config.SPORTS, two of its entries
SPORTS == [NFL |-> "americanfootball_nfl", NBA |-> "basketball_nba"]

\* 'if key not in st.session_state: st.session_state.key = value'
SetDefault(d, key, value) == IF key \in DOMAIN d THEN d ELSE d @@ (key :> value)

\* 'st.session_state.key = value'
SetKey(d, key, value) == (key :> value) @@ d

\* st.session_state after _init_session
_init_session(ss) ==
    SetDefault(
        SetDefault(
            SetDefault(
                SetDefault(
                    SetDefault(ss, "games", [sport \in DOMAIN SPORTS |-> <<>>]),
                    "omniscience_chat", <<>>),
                "last_refresh", 0),
            "api_verified", FALSE),
        "selected_props", <<>>)

\* _verify_api asking whenever the key is no demo key
verify_api_every_run(key, ss, outcome) ==
    IF key = "demo" THEN [session |-> ss, called |-> FALSE]
    ELSE IF "api_verified" \notin DOMAIN ss THEN [session |-> ss, called |-> FALSE]
    ELSE [session |-> IF outcome.kind = "return"
                      THEN SetKey(ss, "api_verified", outcome.value)
                      ELSE ss,
          called  |-> TRUE]

\* _verify_api with Config.API_KEY = key, verify_key ending as outcome when
\* it is called; reading a missing api_verified raises, and so does
\* verify_key at times: the except clause reports it and leaves the session
_verify_api(key, ss, outcome) ==
    IF key = "demo" THEN [session |-> ss, called |-> FALSE]
    ELSE IF "api_verified" \notin DOMAIN ss THEN [session |-> ss, called |-> FALSE]
    ELSE IF ~ss.api_verified
    THEN [session |-> IF outcome.kind = "return"
                      THEN SetKey(ss, "api_verified", outcome.value)
                      ELSE ss,
          called  |-> TRUE]
    ELSE [session |-> ss, called |-> FALSE]

\* the loop leaving at the first fetch that raises
RECURSIVE RefreshSports_stops_at_failure(_, _, _, _)
RefreshSports_stops_at_failure(selected, outcomes, i, st) ==
    IF i > Len(selected) THEN st
    ELSE LET sport == selected[i]
             sport_key == Get(SPORTS, sport, None)
         IN  IF sport_key = None
             THEN RefreshSports_stops_at_failure(selected, outcomes, i + 1, st)
             ELSE LET fetched == [st EXCEPT !.fetches = Append(@,
                                     [sport |-> sport, sport_key |-> sport_key,
                                      result |-> outcomes[i]])]
                  IN  IF outcomes[i].kind = "raise" \/ "games" \notin DOMAIN st.session
                      THEN fetched
                      ELSE RefreshSports_stops_at_failure(selected, outcomes, i + 1,
                               [fetched EXCEPT !.session.games =
                                    SetKey(@, sport, outcomes[i].value)])

\* the loop of _force_refresh over selected, from index i on; outcomes[i] is
\* how fetch_games ends for selected[i]; st is [session, fetches]
RECURSIVE RefreshSports(_, _, _, _)
RefreshSports(selected, outcomes, i, st) ==
    IF i > Len(selected) THEN st
    ELSE LET sport == selected[i]
             sport_key == Get(SPORTS, sport, None)
         IN  IF sport_key = None
             THEN RefreshSports(selected, outcomes, i + 1, st)
             ELSE LET fetched == [st EXCEPT !.fetches = Append(@,
                                     [sport |-> sport, sport_key |-> sport_key,
                                      result |-> outcomes[i]])]
                  IN  IF outcomes[i].kind = "raise" \/ "games" \notin DOMAIN st.session
                      THEN RefreshSports(selected, outcomes, i + 1, fetched)
                      ELSE RefreshSports(selected, outcomes, i + 1,
                               [fetched EXCEPT !.session.games =
                                    SetKey(@, sport, outcomes[i].value)])

\* _force_refresh at time now
_force_refresh(ss, now, outcomes) ==
    LET stamped == SetKey(ss, "last_refresh", now)
        selected_sports == Get(stamped, "league_select", <<"NFL", "NBA">>)
    IN  IF selected_sports = <<>>
        THEN [session |-> stamped, fetches |-> <<>>]
        ELSE RefreshSports(selected_sports, outcomes, 1,
                           [session |-> stamped, fetches |-> <<>>])

\* what st.secrets holds under ODDS_API_KEY; None: nothing, and "demo" is used
Secrets == {None, "demo", "key-1"}

\* how verify_key ends
VerifyResults == {Return(TRUE), Return(FALSE), Raise("Exception")}

\* the list of games fetch_games returns for a response of n games
GamesList(n) == [k \in 1..n |-> Game([is_dict |-> TRUE, id |-> k])]

\* how fetch_games ends inside the try of _force_refresh
RefreshResults ==
    {Return(GamesList(n)) : n \in 0..MaxSessionGames} \cup {Raise("Exception")}

\* what the sidebar's multiselects hand over as league_select; Curling is a
\* name Config.SPORTS does not hold
Selections ==
    { <<>>, <<"NFL">>, <<"NBA">>, <<"NFL", "NBA">>,
      <<"Curling", "NBA">>, <<"NFL", "Curling">> }

-----------------------------------------------------------------------------
(* DataManager (src/utils/data_manager.py): the table games.               *)
(* A value handed to sqlite3 is [type, text]: its storage class and what   *)
(* it reads as.  The table is the sequence of its rows in rowid order.     *)

\* Python's None, SQL's NULL
Null == [type |-> "null", text |-> ""]
Text(t) == [type |-> "text", text |-> t]
Integer(t) == [type |-> "integer", text |-> t]
\* a Python list: a value sqlite3 cannot bind to a statement
List(t) == [type |-> "list", text |-> t]

\* the texts of the model that read as an integer
IntegerTexts == {"1", "7"}

\* a column declared TEXT: a number is stored as its text
TextAffinity(v) == IF v.type = "integer" THEN Text(v.text) ELSE v

\* a column declared INTEGER: a text that reads as an integer is stored as
\* that integer
IntegerAffinity(v) ==
    IF v.type = "text" /\ v.text \in IntegerTexts THEN Integer(v.text) ELSE v

\* the keys save_game reads from game_data, in the order it reads them
GameKeys == <<"id", "date", "home_team", "away_team", "home_score", "away_score">>

\* the row of table games (game_id TEXT PRIMARY KEY, date TEXT, home_team
\* TEXT, away_team TEXT, home_score INTEGER, away_score INTEGER) stored for
\* game_data
GameRow(game_data) ==
    [game_id    |-> TextAffinity(game_data.id),
     date       |-> TextAffinity(game_data.date),
     home_team  |-> TextAffinity(game_data.home_team),
     away_team  |-> TextAffinity(game_data.away_team),
     home_score |-> IntegerAffinity(game_data.home_score),
     away_score |-> IntegerAffinity(game_data.away_score)]

\* INSERT OR REPLACE: the row with the same primary key goes and the new row
\* is added.  game_id is a TEXT PRIMARY KEY of an ordinary rowid table, not
\* declared NOT NULL: NULL is allowed and no two NULLs are the same key.
InsertOrReplace(table, row) ==
    IF row.game_id = Null
    THEN Append(table, row)
    ELSE Append(SelectSeq(table, LAMBDA r : r.game_id # row.game_id), row)

\* save_game on table; db is "ok" or the sqlite3 error connect, execute or
\* commit runs into.  Every exception is logged by the except clause and the
\* call returns None; nothing is committed then.
save_game(table, game_data, db) ==
    IF db # "ok"
    THEN [table |-> table, committed |-> FALSE, error |-> db]
    ELSE IF \E i \in 1..Len(GameKeys) : GameKeys[i] \notin DOMAIN game_data
    THEN [table |-> table, committed |-> FALSE, error |-> "KeyError"]
    ELSE IF \E i \in 1..Len(GameKeys) : game_data[GameKeys[i]].type = "list"
    THEN [table |-> table, committed |-> FALSE, error |-> "InterfaceError"]
    ELSE [table |-> InsertOrReplace(table, GameRow(game_data)),
          committed |-> TRUE, error |-> "none"]

\* game ids handed to save_game
GameIds == {Null, Text("g1"), Text("1"), Integer("1")}

\* home scores handed to save_game
HomeScores == {Integer("1"), Text("7"), List("[1]")}

GameData(id, home_score) ==
    [id |-> id, date |-> Text("d"), home_team |-> Text("H"),
     away_team |-> Text("A"), home_score |-> home_score,
     away_score |-> Integer("2")]

\* arguments of save_game: complete records and one without its scores
GameDatas ==
    {GameData(id, home_score) : id \in GameIds, home_score \in HomeScores}
        \cup {[id |-> Text("g1"), date |-> Text("d"),
               home_team |-> Text("H"), away_team |-> Text("A")]}

\* how the database answers a call
DbOutcomes == {"ok", "OperationalError"}

-----------------------------------------------------------------------------
(* evaluate_uploaded_results (src/analytics/autoeval.py): the table        *)
(* outcomes.  An uploaded file is [kind, parses, columns, rows]: whether   *)
(* pd.read_csv reads it, and the columns and rows of the frame it gives.   *)

\* uploaded_file is None
NoFile == [kind |-> "none", parses |-> TRUE, columns |-> {}, rows |-> <<>>]

\* an uploaded file pd.read_csv raises on
Unreadable == [kind |-> "csv", parses |-> FALSE, columns |-> {}, rows |-> <<>>]

Csv(columns, rows) ==
    [kind |-> "csv", parses |-> TRUE, columns |-> columns, rows |-> rows]

\* an empty cell of the CSV: a float NaN in the frame
NaN == [type |-> "real", text |-> "nan"]

\* str.lower on the texts of the model
Lower == ("WIN" :> "win") @@ ("loss" :> "loss")

\* f"Recorded {inserted} results"
Recorded(inserted) ==
    <<"Recorded 0 results", "Recorded 1 results", "Recorded 2 results",
      "Recorded 3 results", "Recorded 4 results">>[inserted + 1]

required == {"player", "prop", "result"}

\* the rows the loop hands to cursor.execute, from row i on, added to
\* pending; a result that is no str has no lower(): AttributeError
RECURSIVE InsertRows(_, _, _, _)
InsertRows(rows, i, now, pending) ==
    IF i > Len(rows) THEN [rows |-> pending, error |-> "none"]
    ELSE IF rows[i].result.type # "text"
    THEN [rows |-> pending, error |-> "AttributeError"]
    ELSE InsertRows(rows, i + 1, now,
             Append(pending, [player      |-> rows[i].player,
                              prop        |-> rows[i].prop,
                              result      |-> Text(Lower[rows[i].result.text]),
                              resolved_at |-> now]))

\* the function opening the database before it looks at the columns
evaluate_connects_before_validation(table, file, db, now) ==
    IF file.kind = "none"
    THEN [table |-> table, connected |-> FALSE,
          result |-> Return([inserted |-> None, message |-> "No file uploaded"])]
    ELSE IF ~file.parses
    THEN [table |-> table, connected |-> FALSE, result |-> Raise("ParserError")]
    ELSE IF db # "ok"
    THEN [table |-> table, connected |-> TRUE, result |-> Raise(db)]
    ELSE IF ~(required \subseteq file.columns)
    THEN [table |-> table, connected |-> TRUE,
          result |-> Return([inserted |-> None,
                             message |-> "CSV must contain: player, prop, result"])]
    ELSE LET r == InsertRows(file.rows, 1, now, <<>>)
         IN IF r.error # "none"
            THEN [table |-> table, connected |-> TRUE, result |-> Raise(r.error)]
            ELSE [table |-> table \o r.rows, connected |-> TRUE,
                  result |-> Return([inserted |-> Len(r.rows),
                                     message  |-> Recorded(Len(r.rows))])]

\* evaluate_uploaded_results on table at time now; db is "ok" or the
\* sqlite3 error connect runs into.  Nothing catches an exception: it
\* reaches the caller, and what was inserted is not committed.
evaluate_uploaded_results(table, file, db, now) ==
    IF file.kind = "none"
    THEN [table |-> table, connected |-> FALSE,
          result |-> Return([inserted |-> None, message |-> "No file uploaded"])]
    ELSE IF ~file.parses
    THEN [table |-> table, connected |-> FALSE, result |-> Raise("ParserError")]
    ELSE IF ~(required \subseteq file.columns)
    THEN [table |-> table, connected |-> FALSE,
          result |-> Return([inserted |-> None,
                             message |-> "CSV must contain: player, prop, result"])]
    ELSE IF db # "ok"
    THEN [table |-> table, connected |-> TRUE, result |-> Raise(db)]
    ELSE LET r == InsertRows(file.rows, 1, now, <<>>)
         IN IF r.error # "none"
            THEN [table |-> table, connected |-> TRUE, result |-> Raise(r.error)]
            ELSE [table |-> table \o r.rows, connected |-> TRUE,
                  result |-> Return([inserted |-> Len(r.rows),
                                     message  |-> Recorded(Len(r.rows))])]

\* the cells a column of an uploaded CSV holds
Cells(column) ==
    IF column = "player" THEN {Text("Judge")}
    ELSE IF column = "prop" THEN {Text("hits")}
    ELSE IF column = "result" THEN {Text("WIN"), Text("loss"), NaN}
    ELSE {Text("x")}

\* the CSVs of up to MaxCsvRows rows with these columns
CsvsOf(columns) ==
    {Csv(columns, rows) :
        rows \in SeqsUpTo({row \in [columns -> UNION {Cells(c) : c \in columns}] :
                              \A c \in columns : row[c] \in Cells(c)}, MaxCsvRows)}

\* the arguments of evaluate_uploaded_results
UploadedFiles ==
    {NoFile, Unreadable}
        \cup CsvsOf(required) \cup CsvsOf(required \cup {"note"})
        \cup CsvsOf({"player", "prop"}) \cup CsvsOf({"result", "note"})

-----------------------------------------------------------------------------
(* The state machine.                                                      *)

\* [PlayerProjection(d) for d in input]
BuildProjections(input) == [k \in 1..Len(input) |-> PlayerProjection(input[k])]

\* BettingAnalyzer(projections), the projections built by PlayerProjection
Init ==
    /\ \E input \in ProjectionInputs : projections = BuildProjections(input)
    /\ value_plays = <<>>
    /\ arb_opportunities = <<>>
    /\ markets = <<>>
    /\ error = NoError
    /\ calls = 0
    /\ ret = NoCall
    /\ api_fn = "none"
    /\ api_pc = "idle"
    /\ attempt = 0
    /\ http_log = <<>>
    /\ api_result = NoResult
    /\ api_key = "demo"
    /\ session_state = EmptyDict
    /\ app_pc = "config"
    /\ runs = 0
    /\ verify_called = FALSE
    /\ fetches = <<>>
    /\ games_table = <<>>
    /\ saves = <<>>
    /\ logged = 0
    /\ save_ret = NoResult
    /\ outcomes_table = <<>>
    /\ uploads = 0
    /\ uploaded_file = NoFile
    /\ connected = FALSE
    /\ eval_ret = NoResult

\* mutant: the call consumes its argument, leaving the caller's list empty
AnalyzeOdds_consumes_batch(batch) ==
    \E r \in {analyze_odds(projections, value_plays, arb_opportunities, batch)} :
        /\ value_plays' = r.vp
        /\ arb_opportunities' = r.arb
        /\ error' = r.err
        /\ markets' = <<>>
        /\ calls' = calls + 1
        /\ UNCHANGED <<projections, ret, api_vars, app_vars, db_vars>>

\* analyzer.analyze_odds(batch)
AnalyzeOdds(batch) ==
    \E r \in {analyze_odds(projections, value_plays, arb_opportunities, batch)} :
        /\ value_plays' = r.vp
        /\ arb_opportunities' = r.arb
        /\ error' = r.err
        /\ markets' = batch
        /\ calls' = calls + 1
        /\ UNCHANGED <<projections, ret, api_vars, app_vars, db_vars>>

\* analyzer._check_arbitrage(market), the method called on its own
CheckArbitrage(market) ==
    \E r \in {_check_arbitrage(market, 1,
                 [vp |-> value_plays, arb |-> arb_opportunities, err |-> NoError])} :
        /\ arb_opportunities' = r.arb
        /\ error' = r.err
        /\ markets' = <<market>>
        /\ calls' = calls + 1
        /\ UNCHANGED <<projections, value_plays, ret, api_vars, app_vars, db_vars>>

\* BettingAnalyzer._convert_odds(odds)
ConvertOdds(odds) ==
    /\ ret' = [fn |-> "_convert_odds", args |-> <<odds>>, value |-> _convert_odds(odds)]
    /\ UNCHANGED <<projections, value_plays, arb_opportunities, markets, error, calls,
                   api_vars, app_vars, db_vars>>

\* any sequence of at most MaxCalls calls, each on a batch of BatchMarkets
Next ==
    /\ calls < MaxCalls
    /\ \E batch \in Batches : AnalyzeOdds(batch)

\* the analyzers of Spec: the players of BatchMarkets are A, with one or two
\* projections or none, and C, with none
InitBatch ==
    /\ Init
    /\ projections \in {BuildProjections(input) :
                            input \in {<<>>, <<PlayerA55>>, <<PlayerA35, PlayerA55>>}}

Spec == InitBatch /\ [][Next]_vars

\* the first call on a fresh analyzer, on a batch of one market of RichMarkets
NextMarket ==
    /\ calls = 0
    /\ \E market \in RichMarkets : AnalyzeOdds(<<market>>)

SpecMarket == Init /\ [][NextMarket]_vars

\* the first call on a fresh analyzer being _check_arbitrage, on a market of
\* ArbMarkets
NextArbitrage ==
    /\ calls = 0
    /\ \E market \in ArbMarkets : CheckArbitrage(market)

\* _check_arbitrage reads no projection: one analyzer stands for all
InitArbitrage == Init /\ projections = <<PlayerProjection(PlayerA55)>>

SpecArbitrage == InitArbitrage /\ [][NextArbitrage]_vars

\* one call of the static method _convert_odds, on any odds value up to MaxOdds
NextConvert ==
    /\ ret = NoCall
    /\ \E odds \in (-MaxOdds)..MaxOdds : ConvertOdds(odds)

SpecConvert == Init /\ [][NextConvert]_vars

\* BettingAnalyzer._calculate_arbitrage(odds1, odds2)
CalculateArbitrage(odds1, odds2) ==
    /\ ret' = [fn |-> "_calculate_arbitrage", args |-> <<odds1, odds2>>,
               value |-> _calculate_arbitrage(odds1, odds2)]
    /\ UNCHANGED <<projections, value_plays, arb_opportunities, markets, error, calls,
                   api_vars, app_vars, db_vars>>

\* one call on a fresh analyzer: the static method _calculate_arbitrage on
\* two odds, or _check_arbitrage on a market of the same two odds
NextPair ==
    /\ calls = 0
    /\ ret = NoCall
    /\ \/ \E odds1, odds2 \in (-MaxPairOdds)..MaxPairOdds :
              CalculateArbitrage(odds1, odds2)
       \/ \E market \in PairMarkets : CheckArbitrage(market)

SpecPair == InitArbitrage /\ [][NextPair]_vars

\* OddsAPI.fetch_games(sport_key) is called: games = [], and the loop starts.
\* sport_key only goes into the URL and the messages.
CallFetchGames ==
    /\ api_pc = "idle"
    /\ api_fn' = "fetch_games"
    /\ api_pc' = "attempt"
    /\ attempt' = 0
    /\ http_log' = <<>>
    /\ api_result' = NoResult
    /\ UNCHANGED <<analyzer_vars, app_vars, db_vars>>

\* one attempt of fetch_games, its request leading to outcome o
FetchGamesAttempt(o) ==
    /\ api_fn = "fetch_games"
    /\ api_pc = "attempt"
    /\ \E r \in {fetch_games_attempt(attempt, o)} :
           /\ api_pc' = r.pc
           /\ attempt' = r.attempt
           /\ api_result' = r.result
    /\ http_log' = Append(http_log, o)
    /\ UNCHANGED <<api_fn, analyzer_vars, app_vars, db_vars>>

\* OddsAPI.verify_key() is called
CallVerifyKey ==
    /\ api_pc = "idle"
    /\ api_fn' = "verify_key"
    /\ api_pc' = "attempt"
    /\ attempt' = 0
    /\ http_log' = <<>>
    /\ api_result' = NoResult
    /\ UNCHANGED <<analyzer_vars, app_vars, db_vars>>

\* one attempt of verify_key, its request leading to outcome o
VerifyKeyAttempt(o) ==
    /\ api_fn = "verify_key"
    /\ api_pc = "attempt"
    /\ \E r \in {verify_key_attempt(attempt, o)} :
           /\ api_pc' = r.pc
           /\ attempt' = r.attempt
           /\ api_result' = r.result
    /\ http_log' = Append(http_log, o)
    /\ UNCHANGED <<api_fn, analyzer_vars, app_vars, db_vars>>

\* one call of fetch_games or of verify_key, attempt by attempt
NextApi ==
    \/ CallFetchGames
    \/ CallVerifyKey
    \/ \E o \in FetchOutcomes : FetchGamesAttempt(o)
    \/ \E o \in VerifyOutcomes : VerifyKeyAttempt(o)

\* the interpreter keeps running the call, and every request returns or
\* raises within Config.REQUEST_TIMEOUT: a step that can be taken is taken
SpecApi == InitArbitrage /\ [][NextApi]_vars /\ WF_vars(NextApi)

\* the script starts a run: Config.API_KEY = st.secrets.get("ODDS_API_KEY", "demo")
LoadConfig(secret) ==
    /\ app_pc = "config"
    /\ runs < MaxRuns
    /\ api_key' = IF secret = None THEN "demo" ELSE secret
    /\ app_pc' = "init"
    /\ verify_called' = FALSE
    /\ fetches' = <<>>
    /\ UNCHANGED <<session_state, runs, analyzer_vars, api_vars, db_vars>>

\* OddsApp.__init__: self._init_session()
InitSession ==
    /\ app_pc = "init"
    /\ session_state' = _init_session(session_state)
    /\ app_pc' = "verify"
    /\ UNCHANGED <<api_key, runs, verify_called, fetches, analyzer_vars, api_vars, db_vars>>

\* OddsApp.__init__: self._verify_api()
VerifyApi(outcome) ==
    /\ app_pc = "verify"
    /\ \E r \in {_verify_api(api_key, session_state, outcome)} :
           /\ session_state' = r.session
           /\ verify_called' = r.called
    /\ app_pc' = "sidebar"
    /\ UNCHANGED <<api_key, runs, fetches, analyzer_vars, api_vars, db_vars>>

\* OddsApp.run: _render_sidebar stores the selection and, when the refresh
\* button was pressed, calls _force_refresh; the run ends (st.rerun, or the
\* end of the script)
RenderSidebar(selection, pressed, outcomes) ==
    /\ app_pc = "sidebar"
    /\ \E r \in {IF pressed
                  THEN _force_refresh(SetKey(session_state, "league_select", selection),
                                      runs + 1, outcomes)
                  ELSE [session |-> SetKey(session_state, "league_select", selection),
                        fetches |-> <<>>]} :
           /\ session_state' = r.session
           /\ fetches' = r.fetches
    /\ app_pc' = "config"
    /\ runs' = runs + 1
    /\ UNCHANGED <<api_key, verify_called, analyzer_vars, api_vars, db_vars>>

\* the runs of the script in one session, one after the other
NextApp ==
    \/ \E secret \in Secrets : LoadConfig(secret)
    \/ InitSession
    \/ \E outcome \in VerifyResults : VerifyApi(outcome)
    \/ \E selection \in Selections, pressed \in BOOLEAN :
           \E outcomes \in [1..Len(selection) -> RefreshResults] :
               RenderSidebar(selection, pressed, outcomes)

SpecApp == InitArbitrage /\ [][NextApp]_vars

\* one call of DataManager.save_game
SaveGame(game_data, db) ==
    /\ Len(saves) < MaxSaves
    /\ \E r \in {save_game(games_table, game_data, db)} :
           /\ games_table' = r.table
           /\ saves' = Append(saves, [game_data |-> game_data,
                                      committed |-> r.committed])
           /\ logged' = IF r.committed THEN logged ELSE logged + 1
    /\ save_ret' = Return(None)
    /\ UNCHANGED <<outcomes_table, uploads, uploaded_file, connected, eval_ret,
                   analyzer_vars, api_vars, app_vars>>

\* any sequence of save_game calls on a database that _init_db created
NextSave == \E game_data \in GameDatas, db \in DbOutcomes : SaveGame(game_data, db)

SpecSave == InitArbitrage /\ [][NextSave]_vars

\* one call of evaluate_uploaded_results; datetime.utcnow() is the number of
\* the call
EvaluateUploadedResults(file, db) ==
    /\ uploads < MaxUploads
    /\ \E r \in {evaluate_uploaded_results(outcomes_table, file, db, uploads + 1)} :
           /\ outcomes_table' = r.table
           /\ connected' = r.connected
           /\ eval_ret' = r.result
    /\ uploaded_file' = file
    /\ uploads' = uploads + 1
    /\ UNCHANGED <<games_table, saves, logged, save_ret,
                   analyzer_vars, api_vars, app_vars>>

\* any sequence of uploads
NextEval ==
    \E file \in UploadedFiles, db \in DbOutcomes : EvaluateUploadedResults(file, db)

SpecEval == InitArbitrage /\ [][NextEval]_vars

-----------------------------------------------------------------------------
(* Vocabulary of the properties below.  The implied probability of the     *)
(* specification is ProbNum(odds) / ProbDen(odds), written out here and    *)
(* compared by cross-multiplication, independently of the operators above. *)

ProbNum(odds) == IF odds > 0 THEN 100 ELSE -odds

ProbDen(odds) == IF odds > 0 THEN odds + 100 ELSE 100 - odds

\* the market of a one-market call
TheMarket == markets[1]

\* the market names a player, and some projection has that name
HasProjection(m) ==
    /\ "player" \in DOMAIN m
    /\ \E i \in 1..Len(projections) : projections[i].name = m.player

\* the projection analyze_odds uses for market m: the first of that name
ProjectionOf(m) ==
    projections[CHOOSE i \in 1..Len(projections) :
                    /\ projections[i].name = m.player
                    /\ \A j \in 1..(i - 1) : projections[j].name # m.player]

\* every quote of m has both 'odds' and 'bookmaker'
QuotesWellFormed(m) ==
    /\ "markets" \in DOMAIN m
    /\ \A k \in 1..Len(m.markets) : {"odds", "bookmaker"} \subseteq DOMAIN m.markets[k]

\* stat / 100 > ProbNum/ProbDen + 0.05, for the rational stat
ExceedsByMinEdge(stat, odds) ==
    stat.num * ProbDen(odds) > stat.den * (100 * ProbNum(odds) + 5 * ProbDen(odds))

\* e thousandths is a nearest multiple of 0.001 to stat/100 - ProbNum/ProbDen
IsEdgeRounded(e, stat, odds) ==
    LET d == 100 * stat.den * ProbDen(odds)
        x == 1000 * (stat.num * ProbDen(odds) - 100 * ProbNum(odds) * stat.den)
    IN  2 * Abs(e * d - x) <= d

\* the market has 'player', 'type' and 'markets', and well-formed quotes
MarketWellFormed(m) ==
    /\ {"player", "type"} \subseteq DOMAIN m
    /\ QuotesWellFormed(m)

\* one of a and b is > 0 and the other < 0
IsOpposite(a, b) == (a > 0 /\ b < 0) \/ (a < 0 /\ b > 0)

\* odds a and b are of opposite sign and their implied probabilities sum to
\* less than 1
IsProfitablePair(a, b) ==
    /\ IsOpposite(a, b)
    /\ ProbNum(a) * ProbDen(b) + ProbNum(b) * ProbDen(a) < ProbDen(a) * ProbDen(b)

\* the index pairs i < j of the quotes with odds that are profitable pairs
ProfitablePairs(quotes) ==
    {pair \in (1..Len(quotes)) \X (1..Len(quotes)) :
        /\ pair[1] < pair[2]
        /\ "odds" \in DOMAIN quotes[pair[1]]
        /\ "odds" \in DOMAIN quotes[pair[2]]
        /\ IsProfitablePair(quotes[pair[1]].odds, quotes[pair[2]].odds)}

\* opportunity r records the quotes q1 and q2, in that order
RecordsPair(r, q1, q2) ==
    /\ r.book1 = q1.bookmaker /\ r.odds1 = q1.odds
    /\ r.book2 = q2.bookmaker /\ r.odds2 = q2.odds

\* the market holds exactly two well-formed quotes, one of odds > 0 and one
\* of odds < 0, in either order
IsLongShortMarket(m) ==
    /\ MarketWellFormed(m)
    /\ Len(m.markets) = 2
    /\ IsOpposite(m.markets[1].odds, m.markets[2].odds)

\* the positive and the negative odds of such a market
LongOdds(m) == IF m.markets[1].odds > 0 THEN m.markets[1].odds ELSE m.markets[2].odds
ShortOdds(m) == IF m.markets[1].odds < 0 THEN m.markets[1].odds ELSE m.markets[2].odds

\* convert(L) + (1 - convert(|S|)) < 0.98, with convert(x) = 100/(x + 100)
\* for the positive arguments L and |S|; a = L + 100, b = |S| + 100
LegacySumBelowThreshold(long, short) ==
    LET a == long + 100
        b == (-short) + 100
    IN  100 * (100 * b + a * (b - 100)) < 98 * a * b

\* p hundredths of a percent is a nearest multiple of 0.01 to
\* 100 * (1 - (convert(L) + (1 - convert(|S|))))
IsLegacyEdgeRounded(p, long, short) ==
    LET a == long + 100
        b == (-short) + 100
    IN  2 * Abs(p * a * b - 10000 * (a * b - 100 * b - a * (b - 100))) <= a * b

\* the two quotes are [FanDuel: +120, DraftKings: -110]
IsFanDuelDraftKingsScenario(m) ==
    m.markets = <<[bookmaker |-> "FanDuel", odds |-> 120],
                  [bookmaker |-> "DraftKings", odds |-> -110]>>

-----------------------------------------------------------------------------
\* C1: for every nonzero odds, _convert_odds returns 100/(odds+100) when
\* odds > 0 and |odds|/(|odds|+100) when odds < 0; the result lies strictly
\* between 0 and 1; and convert(100) = convert(-100) = 1/2.
C1_ConvertOdds ==
    (ret.fn = "_convert_odds" /\ ret.args[1] # 0) =>
        LET odds == ret.args[1]
            v == ret.value
        IN  /\ odds > 0 => v.num * (odds + 100) = 100 * v.den
            /\ odds < 0 => v.num * ((-odds) + 100) = (-odds) * v.den
            /\ v.den > 0 /\ 0 < v.num /\ v.num < v.den
            /\ odds \in {100, -100} => (v.num = 1 /\ v.den = 2)

C1_Witness ==
    /\ ret.fn = "_convert_odds"
    /\ ret.args = <<-100>>
    /\ ret.value = [num |-> 1, den |-> 2]

\* C2: for a well-formed market whose player has a projection holding the
\* market's prop type, value_plays lists, in quote order, exactly the quotes
\* with stats[type]/100 > convert(odds) + 0.05 (strictly), each with the
\* quote's player, prop, odds and bookmaker and the edge rounded to 0.001.
C2_ValuePlayExactlyAboveMinEdge ==
    (/\ calls = 1
     /\ HasProjection(TheMarket)
     /\ QuotesWellFormed(TheMarket)
     /\ "type" \in DOMAIN TheMarket
     /\ TheMarket.type \in DOMAIN ProjectionOf(TheMarket).stats) =>
        LET m == TheMarket
            stat == ProjectionOf(m).stats[m.type]
            plays == SelectSeq(m.markets, LAMBDA q : ExceedsByMinEdge(stat, q.odds))
        IN  /\ Len(value_plays) = Len(plays)
            /\ \A k \in 1..Len(plays) :
                   /\ value_plays[k].player = m.player
                   /\ value_plays[k].prop = m.type
                   /\ value_plays[k].odds = plays[k].odds
                   /\ value_plays[k].book = plays[k].bookmaker
                   /\ IsEdgeRounded(value_plays[k].edge, stat, plays[k].odds)

\* hits 55 against +100 (edge exactly 0.05: no play) and +120 (edge 0.095)
C2_Witness ==
    /\ calls = 1
    /\ HasProjection(TheMarket)
    /\ "type" \in DOMAIN TheMarket
    /\ TheMarket.type = "hits"
    /\ ProjectionOf(TheMarket).stats.hits = [num |-> 55, den |-> 1]
    /\ "markets" \in DOMAIN TheMarket
    /\ TheMarket.markets = <<[bookmaker |-> "FanDuel", odds |-> 100],
                             [bookmaker |-> "DraftKings", odds |-> 120]>>
    /\ value_plays = <<[player |-> "A", prop |-> "hits", odds |-> 120,
                        edge |-> 95, book |-> "DraftKings"]>>

\* C3: _check_arbitrage on a market records one opportunity for every pair
\* of quotes of opposite sign with 1 - (convert(odds1) + convert(odds2)) > 0,
\* each such pair and no other: none for a same-sign pair, none for a pair
\* whose implied probabilities sum to 1 or more.
C3_OpportunityForEveryProfitablePair ==
    (/\ calls = 1
     /\ {"player", "type"} \subseteq DOMAIN TheMarket
     /\ \A k \in 1..Len(TheMarket.markets) :
            "bookmaker" \in DOMAIN TheMarket.markets[k]) =>
        LET quotes == TheMarket.markets
            pairs == ProfitablePairs(quotes)
        IN  /\ error = NoError
            /\ Len(arb_opportunities) = Cardinality(pairs)
            /\ \A pair \in pairs : \E k \in 1..Len(arb_opportunities) :
                   RecordsPair(arb_opportunities[k], quotes[pair[1]], quotes[pair[2]])
            /\ \A k \in 1..Len(arb_opportunities) :
                   /\ IsProfitablePair(arb_opportunities[k].odds1,
                                       arb_opportunities[k].odds2)
                   /\ \E pair \in pairs :
                          RecordsPair(arb_opportunities[k], quotes[pair[1]], quotes[pair[2]])

\* three quotes: (+120, -110) and (-110, +120) are both recorded, the
\* same-sign pair (+120, +120) is not
C3_Witness ==
    /\ calls = 1
    /\ {"player", "type"} \subseteq DOMAIN TheMarket
    /\ TheMarket.markets = <<[bookmaker |-> "FanDuel", odds |-> 120],
                             [bookmaker |-> "DraftKings", odds |-> -110],
                             [bookmaker |-> "FanDuel", odds |-> 120]>>
    /\ Len(arb_opportunities) = 2
    /\ arb_opportunities[1].odds1 = 120 /\ arb_opportunities[1].odds2 = -110
    /\ arb_opportunities[2].odds1 = -110 /\ arb_opportunities[2].odds2 = 120

\* C4 (as claimed): after every call, value_plays and arb_opportunities hold
\* exactly the records of the markets of the latest call.
C4_CallReplacesResults ==
    calls >= 1 =>
        LET fresh == analyze_odds(projections, <<>>, <<>>, markets)
        IN  /\ value_plays = fresh.vp
            /\ arb_opportunities = fresh.arb

\* C5 (as claimed): a malformed market or quote is skipped: the call raises
\* nothing and yields what the batch without its malformed markets yields.
C5_MalformedRecordSkipped ==
    calls = 1 =>
        LET sound == SelectSeq(markets, MarketWellFormed)
            expected == analyze_odds(projections, <<>>, <<>>, sound)
        IN  /\ error = NoError
            /\ value_plays = expected.vp
            /\ arb_opportunities = expected.arb

\* C6 (as claimed): the opportunities of a well-formed market are those of
\* its quotes, whether or not its player has a projection.
C6_ArbitrageIgnoresProjections ==
    (calls = 1 /\ MarketWellFormed(TheMarket)) =>
        /\ Len(arb_opportunities) = Cardinality(ProfitablePairs(TheMarket.markets))
        /\ ~HasProjection(TheMarket) => value_plays = <<>>

\* C7 (as claimed): a market with a long quote L and a short quote S yields
\* an opportunity when convert(L) + (1 - convert(|S|)) < 0.98, its edge being
\* 1 minus that sum, and [FanDuel: +120, DraftKings: -110] yields an edge of
\* about 0.0693 (a recorded profit of 6.92 to 6.94 percent).
C7_LegacyScenarioEdge ==
    (calls = 1 /\ IsLongShortMarket(TheMarket)) =>
        /\ LegacySumBelowThreshold(LongOdds(TheMarket), ShortOdds(TheMarket)) =>
               /\ Len(arb_opportunities) = 1
               /\ IsLegacyEdgeRounded(arb_opportunities[1].profit,
                                      LongOdds(TheMarket), ShortOdds(TheMarket))
        /\ IsFanDuelDraftKingsScenario(TheMarket) =>
               /\ Len(arb_opportunities) = 1
               /\ arb_opportunities[1].profit \in 692..694

\* C7 (amended): the same rule, with the profit recorded in percent rounded
\* to 0.01, and [FanDuel: +120, DraftKings: -110] yielding a profit of 2.16
\* percent (an edge of about 0.0216).
C7_ScenarioEdge ==
    (calls = 1 /\ IsLongShortMarket(TheMarket)) =>
        /\ LegacySumBelowThreshold(LongOdds(TheMarket), ShortOdds(TheMarket)) =>
               /\ Len(arb_opportunities) = 1
               /\ IsLegacyEdgeRounded(arb_opportunities[1].profit,
                                      LongOdds(TheMarket), ShortOdds(TheMarket))
        /\ IsFanDuelDraftKingsScenario(TheMarket) =>
               /\ Len(arb_opportunities) = 1
               /\ arb_opportunities[1].profit = 216

C7_Witness ==
    /\ calls = 1
    /\ IsLongShortMarket(TheMarket)
    /\ IsFanDuelDraftKingsScenario(TheMarket)
    /\ LegacySumBelowThreshold(120, -110)
    /\ arb_opportunities = <<[player |-> "A", prop |-> "hits",
                              book1 |-> "FanDuel", book2 |-> "DraftKings",
                              odds1 |-> 120, odds2 |-> -110, profit |-> 216]>>

\* C8 (as claimed): a quote of odds 0 either raises InvalidOddsError or is a
\* negative-branch quote of implied probability 0 in both scans: a value play
\* whenever stats[type]/100 > 0.05, and the short side of an opportunity with
\* every quote of odds > 0, their implied probabilities summing to under 1.
C8_ZeroOddsConsistent ==
    (/\ calls = 1
     /\ HasProjection(TheMarket)
     /\ MarketWellFormed(TheMarket)
     /\ TheMarket.type \in DOMAIN ProjectionOf(TheMarket).stats) =>
        LET quotes == TheMarket.markets
            stat == ProjectionOf(TheMarket).stats[TheMarket.type]
            zeros == {k \in 1..Len(quotes) : quotes[k].odds = 0}
            longs == {k \in 1..Len(quotes) : quotes[k].odds > 0}
        IN  \/ zeros = {}
            \/ error.exc = "InvalidOddsError"
            \/ /\ \A z \in zeros :
                      ExceedsByMinEdge(stat, 0) =>
                          \E k \in 1..Len(value_plays) :
                              /\ value_plays[k].odds = 0
                              /\ value_plays[k].book = quotes[z].bookmaker
               /\ \A z \in zeros : \A l \in longs :
                      \E k \in 1..Len(arb_opportunities) :
                          {arb_opportunities[k].odds1, arb_opportunities[k].odds2}
                              = {0, quotes[l].odds}

\* C9: a market whose player is the name of no projection is skipped: the
\* call raises nothing and adds no value play, whatever its quotes hold.
C9_UnmatchedPlayerSkipped ==
    (/\ calls = 1
     /\ \A i \in 1..Len(projections) :
            projections[i].name # Get(TheMarket, "player", None)) =>
        /\ error = NoError
        /\ value_plays = <<>>

\* player C has no projection; +250 would be a play against A's 55 hits,
\* and the second quote has no 'odds'
C9_Witness ==
    /\ calls = 1
    /\ Len(projections) > 0
    /\ projections[1].name = "A"
    /\ "player" \in DOMAIN TheMarket
    /\ TheMarket.player = "C"
    /\ "markets" \in DOMAIN TheMarket
    /\ TheMarket.markets = <<[bookmaker |-> "FanDuel", odds |-> 250],
                             [bookmaker |-> "FanDuel"]>>
    /\ error = NoError
    /\ value_plays = <<>>

\* C10: when the market's prop type is no key of the matching projection's
\* stats, no quote of the market yields a value play, the missing key raises
\* nothing, and with well-formed quotes the call raises nothing at all.
C10_MissingStatKeyIsZero ==
    (/\ calls = 1
     /\ HasProjection(TheMarket)
     /\ "type" \in DOMAIN TheMarket
     /\ TheMarket.type \notin DOMAIN ProjectionOf(TheMarket).stats) =>
        /\ value_plays = <<>>
        /\ error.key \notin {"type", TheMarket.type}
        /\ QuotesWellFormed(TheMarket) => error = NoError

\* 'steals' is no stats key; the quotes hold odds 0 (implied probability 0)
C10_Witness ==
    /\ calls = 1
    /\ HasProjection(TheMarket)
    /\ "type" \in DOMAIN TheMarket
    /\ TheMarket.type = "steals"
    /\ "markets" \in DOMAIN TheMarket
    /\ TheMarket.markets = <<[bookmaker |-> "FanDuel", odds |-> 0],
                             [bookmaker |-> "DraftKings", odds |-> 250]>>
    /\ value_plays = <<>>
    /\ error = NoError

\* the list seq with its elements k and k + 1 exchanged
Swapped(seq, k) ==
    [n \in 1..Len(seq) |-> IF n = k THEN seq[k + 1]
                           ELSE IF n = k + 1 THEN seq[k]
                           ELSE seq[n]]

\* what opportunity r says, whichever of its two legs comes first
Unordered(r) ==
    [player |-> r.player,
     prop   |-> r.prop,
     legs   |-> {<<r.book1, r.odds1>>, <<r.book2, r.odds2>>},
     profit |-> r.profit]

\* the opportunities of the list arb, as a set
UnorderedSet(arb) == {Unordered(arb[k]) : k \in 1..Len(arb)}

\* C11: _check_arbitrage on a market with any two neighbouring quotes
\* exchanged records the same opportunities: as many, the same bookmaker
\* pairs with the same odds and the same profit (whichever leg is called
\* book1), and it raises for one order exactly when it raises for the other.
\* Every permutation of the quotes is a chain of such exchanges, each of them
\* a market of some call, so this holds for all permutations.
C11_ArbitrageSymmetricInQuoteOrder ==
    calls = 1 =>
        \A k \in 1..(Len(TheMarket.markets) - 1) :
            \A r \in {_check_arbitrage([TheMarket EXCEPT !.markets = Swapped(@, k)], 1,
                                        [vp |-> <<>>, arb |-> <<>>, err |-> NoError])} :
                /\ Len(r.arb) = Len(arb_opportunities)
                /\ UnorderedSet(r.arb) = UnorderedSet(arb_opportunities)
                /\ r.err = error

\* [DraftKings: -110, FanDuel: +120], the scenario of C7 in the other order
C11_Witness ==
    /\ calls = 1
    /\ TheMarket.markets = <<[bookmaker |-> "DraftKings", odds |-> -110],
                             [bookmaker |-> "FanDuel", odds |-> 120]>>
    /\ arb_opportunities = <<[player |-> "A", prop |-> "hits",
                              book1 |-> "DraftKings", book2 |-> "FanDuel",
                              odds1 |-> -110, odds2 |-> 120, profit |-> 216]>>

\* C12: _check_arbitrage on a market with no quote or exactly one, each
\* naming its bookmaker, records no opportunity and raises nothing, whatever
\* the odds are and whether or not the market has 'player' and 'type'.
C12_FewerThanTwoQuotesNoOpportunity ==
    (/\ calls = 1
     /\ Len(TheMarket.markets) < 2
     /\ \A k \in 1..Len(TheMarket.markets) :
            "bookmaker" \in DOMAIN TheMarket.markets[k]) =>
        /\ arb_opportunities = <<>>
        /\ error = NoError

\* a single quote at +120, on a market without 'player'
C12_Witness ==
    /\ calls = 1
    /\ "player" \notin DOMAIN TheMarket
    /\ TheMarket.markets = <<[bookmaker |-> "FanDuel", odds |-> 120]>>
    /\ arb_opportunities = <<>>
    /\ error = NoError

\* the records of a result list, as a set
AsSet(seq) == {seq[k] : k \in 1..Len(seq)}

\* C13: a call of analyze_odds on the batch of the call before it, on the
\* same analyzer, leaves the set of value plays and the set of opportunities
\* as they were; and when the call before it was the first, those sets are
\* also what a fresh analyzer of the same projections yields for the batch.
C13_RerunYieldsSameSets ==
    [][(calls >= 1 /\ calls' = calls + 1 /\ markets' = markets) =>
           /\ AsSet(value_plays') = AsSet(value_plays)
           /\ AsSet(arb_opportunities') = AsSet(arb_opportunities)
           /\ calls = 1 =>
                  LET fresh == analyze_odds(projections', <<>>, <<>>, markets')
                  IN  /\ AsSet(fresh.vp) = AsSet(value_plays)
                      /\ AsSet(fresh.arb) = AsSet(arb_opportunities)]_vars

\* the batch [A/hits: FanDuel +120, DraftKings -110] run twice: each result
\* list holds its one record two times
C13_Witness ==
    /\ calls = 2
    /\ Len(markets) = 1
    /\ IsFanDuelDraftKingsScenario(markets[1])
    /\ Len(value_plays) = 2
    /\ value_plays[1] = value_plays[2]
    /\ value_plays[1].odds = 120
    /\ Len(arb_opportunities) = 2
    /\ arb_opportunities[1] = arb_opportunities[2]

\* C14: a call of analyze_odds leaves the projections (names, stats and all)
\* as they were, and leaves its argument intact: the batch as it is after
\* the call is a batch of the caller's, and analysing it from the results
\* held before the call gives exactly the results held after it.  Only
\* value_plays and arb_opportunities change.
C14_InputsNotMutated ==
    [][calls' = calls + 1 =>
           /\ projections' = projections
           /\ ret' = ret
           /\ markets' \in Batches
           /\ \A r \in {analyze_odds(projections, value_plays,
                                      arb_opportunities, markets')} :
                  /\ value_plays' = r.vp
                  /\ arb_opportunities' = r.arb
                  /\ error' = r.err]_vars

\* a call that appended a value play and an opportunity for player A, whose
\* projection still holds the 55 hits it was built with
C14_Witness ==
    /\ calls = 1
    /\ projections = <<PlayerProjection(PlayerA55)>>
    /\ projections[1].stats.hits = [num |-> 55, den |-> 1]
    /\ markets = <<Market("A", "hits", TRUE,
                          <<[bookmaker |-> "DraftKings", odds |-> -110],
                            [bookmaker |-> "FanDuel", odds |-> 250]>>)>>
    /\ Len(value_plays) = 1
    /\ Len(arb_opportunities) = 1

\* the stat values a projection is raised to
HigherHits == {36, 51, 55, 56, 58, 100}

\* an analyzer whose only projection has that name and h hits
AnalyzerWithHits(name, h) ==
    <<PlayerProjection([name |-> name, avg |-> Rat(25, 100), ab |-> Rat(4 * h, 1)])>>

\* stat/100 - ProbNum/ProbDen is strictly larger for stat t than for stat s
EdgeStrictlyLarger(t, s, odds) ==
    t.num * ProbDen(odds) * s.den - 100 * ProbNum(odds) * t.den * s.den
        > s.num * ProbDen(odds) * t.den - 100 * ProbNum(odds) * t.den * s.den

\* C15: on a market whose quotes all name their bookmaker, every value play
\* emitted with the projection's stat at s is emitted again, for the same
\* quote, when the stat is raised to any s' > s, the odds unchanged; its
\* unrounded edge s'/100 - convert(odds) is strictly larger, and its
\* recorded edge is that edge rounded to 0.001, never below the former one.
C15_ValuePlayMonotoneInStat ==
    (/\ calls = 1
     /\ HasProjection(TheMarket)
     /\ "type" \in DOMAIN TheMarket
     /\ TheMarket.type \in DOMAIN ProjectionOf(TheMarket).stats
     /\ "markets" \in DOMAIN TheMarket
     /\ \A k \in 1..Len(TheMarket.markets) :
            "bookmaker" \in DOMAIN TheMarket.markets[k]) =>
        LET s == ProjectionOf(TheMarket).stats[TheMarket.type]
        IN  \A h \in {x \in HigherHits : x * s.den > s.num} :
            \A r \in {analyze_odds(AnalyzerWithHits(TheMarket.player, h),
                                    <<>>, <<>>, markets)} :
                /\ Len(r.vp) >= Len(value_plays)
                /\ \A k \in 1..Len(value_plays) : \E j \in 1..Len(r.vp) :
                       /\ r.vp[j].odds = value_plays[k].odds
                       /\ r.vp[j].book = value_plays[k].book
                       /\ r.vp[j].edge >= value_plays[k].edge
                       /\ IsEdgeRounded(r.vp[j].edge, Rat(h, 1), r.vp[j].odds)
                       /\ EdgeStrictlyLarger(Rat(h, 1), s, r.vp[j].odds)

\* 35 hits against +250 is a play (edge 0.064) and against +120 is not; at
\* 51 hits and more both quotes are plays
C15_Witness ==
    /\ calls = 1
    /\ HasProjection(TheMarket)
    /\ "type" \in DOMAIN TheMarket
    /\ TheMarket.type = "hits"
    /\ ProjectionOf(TheMarket).stats.hits = [num |-> 35, den |-> 1]
    /\ "markets" \in DOMAIN TheMarket
    /\ TheMarket.markets = <<[bookmaker |-> "FanDuel", odds |-> 250],
                             [bookmaker |-> "DraftKings", odds |-> 120]>>
    /\ value_plays = <<[player |-> "A", prop |-> "hits", odds |-> 250,
                        edge |-> 64, book |-> "FanDuel"]>>
    /\ Len(analyze_odds(AnalyzerWithHits("A", 51), <<>>, <<>>, markets).vp) = 2

\* C16: when every market of the batch of a call is well formed, the call
\* raises nothing, and the batch with any two neighbouring markets
\* exchanged, analysed from the same results collected so far, gives the
\* same set of value plays and the same set of opportunities as the call
\* did.  Every permutation of a batch is a chain of such exchanges, each of
\* them a batch of some call, so the sets are the same for all permutations.
C16_BatchOrderIndependent ==
    [][(/\ calls' = calls + 1
        /\ \A k \in 1..Len(markets') : MarketWellFormed(markets'[k])) =>
           /\ error' = NoError
           /\ \A k \in 1..(Len(markets') - 1) :
                  \A r \in {analyze_odds(projections, value_plays, arb_opportunities,
                                          Swapped(markets', k))} :
                      /\ AsSet(r.vp) = AsSet(value_plays')
                      /\ AsSet(r.arb) = AsSet(arb_opportunities')
                      /\ r.err = NoError]_vars

\* the batch [A: -110, +250] then [A: +120, -110] on a fresh analyzer: the
\* plays at +250 and +120 come in that order, the reverse of the other order
C16_Witness ==
    /\ calls = 1
    /\ Len(markets) = 2
    /\ markets[1].markets = <<[bookmaker |-> "DraftKings", odds |-> -110],
                              [bookmaker |-> "FanDuel", odds |-> 250]>>
    /\ IsFanDuelDraftKingsScenario(markets[2])
    /\ Len(value_plays) = 2
    /\ value_plays[1].odds = 250
    /\ value_plays[2].odds = 120
    /\ Len(arb_opportunities) = 2

\* score = (0.3 * hits + 0.4 * home_runs + 0.3 * rbis) * 1.2, cross-multiplied
IsValueScore(score, stats) ==
    LET h == stats.hits
        r == stats.home_runs
        b == stats.rbis
    IN  score.num * 100 * h.den * r.den * b.den
            = score.den * 12 * (3 * h.num * r.den * b.den
                                + 4 * r.num * h.den * b.den
                                + 3 * b.num * h.den * r.den)

\* the projections projs, each with its value_score replaced by score
WithValueScore(projs, score) ==
    [k \in 1..Len(projs) |-> [projs[k] EXCEPT !.value_score = score]]

\* C17: every projection's value_score is (0.3 * hits + 0.4 * home_runs +
\* 0.3 * rbis) * 1.2 of its stats, before and after a call; and the result
\* of a call (value plays, opportunities, exception) is what an analyzer
\* whose projections differ only in value_score yields for the same batch.
C17_ValueScoreInformational ==
    /\ \A k \in 1..Len(projections) :
           IsValueScore(projections[k].value_score, projections[k].stats)
    /\ calls = 1 =>
           \A score \in {Zero, Rat(1000, 1)} :
               analyze_odds(WithValueScore(projections, score), <<>>, <<>>, markets)
                   = [vp |-> value_plays, arb |-> arb_opportunities, err |-> error]

\* B (65 hits, 12 home runs, 26 rbis) scores 38.52 and A (55 hits) scores
\* 19.8; the play of the market on A rests on A's 55 hits alone
C17_Witness ==
    /\ calls = 1
    /\ Len(projections) = 2
    /\ projections[1].name = "B"
    /\ projections[1].stats.home_runs = [num |-> 12, den |-> 1]
    /\ projections[1].stats.rbis = [num |-> 26, den |-> 1]
    /\ projections[1].value_score = [num |-> 963, den |-> 25]
    /\ projections[2].name = "A"
    /\ projections[2].value_score = [num |-> 99, den |-> 5]
    /\ "markets" \in DOMAIN TheMarket
    /\ TheMarket.markets = <<[bookmaker |-> "FanDuel", odds |-> 120]>>
    /\ value_plays = <<[player |-> "A", prop |-> "hits", odds |-> 120,
                        edge |-> 95, book |-> "FanDuel"]>>

\* C18: for odds a > 0 and -b < 0, in either order, _calculate_arbitrage
\* returns a positive profit exactly when a > b, and 0 when a <= b; and
\* _check_arbitrage on a market of those two quotes records one opportunity
\* exactly when a > b, and none when a <= b.
C18_ProfitIffLongExceedsShort ==
    /\ (ret.fn = "_calculate_arbitrage" /\ IsOpposite(ret.args[1], ret.args[2])) =>
           LET a == IF ret.args[1] > 0 THEN ret.args[1] ELSE ret.args[2]
               b == IF ret.args[1] < 0 THEN -ret.args[1] ELSE -ret.args[2]
           IN  /\ a > b <=> ret.value.num > 0
               /\ a <= b => ret.value.num = 0
    /\ (calls = 1 /\ IsLongShortMarket(TheMarket)) =>
           LET a == LongOdds(TheMarket)
               b == -ShortOdds(TheMarket)
           IN  /\ a > b <=> Len(arb_opportunities) = 1
               /\ a <= b => arb_opportunities = <<>>
               /\ error = NoError

\* +101 against -100: the smallest excess, a profit of 0.25 percent
C18_Witness ==
    /\ calls = 1
    /\ TheMarket.markets = <<[bookmaker |-> "FanDuel", odds |-> -100],
                             [bookmaker |-> "DraftKings", odds |-> 101]>>
    /\ Len(arb_opportunities) = 1
    /\ arb_opportunities[1].profit = 25

\* the request raised a RequestException, at requests.get or at response.json()
IsRequestException(o) ==
    \/ o.kind = "raised" /\ o.exc = "RequestException"
    \/ o.kind = "response" /\ o.status < 400 /\ o.json_exc = "RequestException"

\* the request came back with a response that is not ok
IsNotOk(o) == o.kind = "response" /\ o.status >= 400

\* an ok response whose body parsed
IsOkBody(o) == o.kind = "response" /\ o.status < 400 /\ o.json_exc = "none"

\* an ok response with data, of which the first 50 records are all dicts
IsOkWithGames(o) ==
    /\ IsOkBody(o)
    /\ o.games_data # <<>>
    /\ \A k \in 1..Len(o.games_data) : k <= 50 => o.games_data[k].is_dict

\* in every state of a fetch_games call: at most 3 requests were made; every
\* request but the latest failed with a response that is not ok or with a
\* request exception; while the call runs, so did the latest; and once it is
\* done it has returned: the first 50 games of the data, parsed, when the
\* latest response was ok with data, and the empty list otherwise, a failed
\* latest request being the third.
FetchGamesContract ==
    api_fn = "fetch_games" =>
        LET n == Len(http_log)
        IN  /\ n <= 3
            /\ \A k \in 1..n :
                   (k < n \/ api_pc = "attempt") =>
                       IsNotOk(http_log[k]) \/ IsRequestException(http_log[k])
            /\ api_pc = "attempt" => (n < 3 /\ api_result = NoResult)
            /\ api_pc = "done" =>
                   /\ n >= 1
                   /\ api_result.kind = "return"
                   /\ Len(api_result.value) <= 50
                   /\ IF IsOkWithGames(http_log[n])
                      THEN /\ Len(api_result.value) = Min(Len(http_log[n].games_data), 50)
                           /\ \A k \in 1..Len(api_result.value) :
                                  api_result.value[k].id = http_log[n].games_data[k].id
                      ELSE api_result.value = <<>>
                   /\ (IsNotOk(http_log[n]) \/ IsRequestException(http_log[n])) => n = 3

\* C19: fetch_games ends after at most MAX_RETRIES (3) requests: it returns
\* the parsed games, at most MAX_GAMES (50), at the first ok response with
\* data and requests nothing more; it returns the empty list, without a
\* further request, at an ok response with empty data or at an exception that
\* is no request exception; it returns the empty list when the third request
\* has failed like the two before it; and every call does end.
C19_FetchGamesTerminates ==
    /\ []FetchGamesContract
    /\ (api_fn = "fetch_games") ~> (api_pc = "done")

\* a request exception, a 500, then 200 with 51 games: the first 50 come back
C19_Witness ==
    /\ api_fn = "fetch_games"
    /\ api_pc = "done"
    /\ Len(http_log) = 3
    /\ http_log[1] = GetRaised("RequestException")
    /\ http_log[2].status = 500
    /\ http_log[3].status = 200
    /\ Len(http_log[3].games_data) = 51
    /\ api_result.kind = "return"
    /\ Len(api_result.value) = 50
    /\ api_result.value[50].id = 50

\* the request of a verify_key attempt failed in a way that is retried: a
\* RequestException, or a response of a status other than 200 and 401
IsRetriedByVerify(o) ==
    \/ o.kind = "raised" /\ o.exc = "RequestException"
    \/ o.kind = "response" /\ o.status \notin {200, 401}

\* the call returned that boolean
Returned(b) == api_result.kind = "return" /\ api_result.value = b

\* in every state of a verify_key call: at most 3 requests were made; every
\* request but the latest met another status than 200 and 401 or a request
\* exception; while the call runs, so did the latest; once it is done, it
\* returned True when the latest response was a 200, False when it was a
\* 401, False when the third request failed like the others; it raised only
\* what the latest request raised; and it returned True only after a 200.
VerifyKeyContract ==
    api_fn = "verify_key" =>
        LET n == Len(http_log)
        IN  /\ n <= 3
            /\ \A k \in 1..n :
                   (k < n \/ api_pc = "attempt") => IsRetriedByVerify(http_log[k])
            /\ api_pc = "attempt" => (n < 3 /\ api_result = NoResult)
            /\ api_pc = "done" =>
                   /\ n >= 1
                   /\ (http_log[n].kind = "response" /\ http_log[n].status = 200)
                          => Returned(TRUE)
                   /\ (http_log[n].kind = "response" /\ http_log[n].status = 401)
                          => Returned(FALSE)
                   /\ IsRetriedByVerify(http_log[n]) => (n = 3 /\ Returned(FALSE))
                   /\ api_result.kind = "raise" =>
                          (http_log[n].kind = "raised" /\ http_log[n].exc = api_result.value)
            /\ Returned(TRUE) =>
                   \E k \in 1..n : http_log[k].kind = "response" /\ http_log[k].status = 200

\* C20: verify_key makes at most MAX_RETRIES (3) requests and every call
\* ends: True at the first 200; False at the first 401, with no further
\* request; another request after any other status or a request exception;
\* False when the third request fails too; and True only after a 200.
C20_VerifyKeyTerminates ==
    /\ []VerifyKeyContract
    /\ (api_fn = "verify_key") ~> (api_pc = "done")

\* a 500, then a 401: False after two requests
C20_Witness ==
    /\ api_fn = "verify_key"
    /\ api_pc = "done"
    /\ Len(http_log) = 2
    /\ http_log[1].status = 500
    /\ http_log[2].status = 401
    /\ Returned(FALSE)

-----------------------------------------------------------------------------
(* OddsApp: the session across runs.                                       *)

\* the names of a selection that Config.SPORTS holds, in the selection's order
ValidSports(selected) == SelectSeq(selected, LAMBDA sport : sport \in DOMAIN SPORTS)

\* the sports of the fetches made, in the order they were made
FetchedSports(made) == [i \in 1..Len(made) |-> made[i].sport]

\* the fetches of sport, among made, that returned a list
ReturnedFor(made, sport) ==
    {i \in 1..Len(made) : made[i].sport = sport /\ made[i].result.kind = "return"}

\* the greatest member of a non-empty set of integers
Latest(S) == CHOOSE i \in S : \A j \in S : j <= i

\* the step of a run in which _force_refresh ran: it stamps last_refresh
IsForceRefresh ==
    /\ app_pc = "sidebar"
    /\ app_pc' = "config"
    /\ session_state'.last_refresh = runs'

\* C21: _force_refresh treats every selected sport on its own.  Every
\* selected name Config.SPORTS holds is fetched, once per occurrence and in
\* order, under its sport key, whatever became of the other names (an
\* unknown name, a fetch that raised); no name selected, no fetch.  After it
\* games[sport] is the list the latest fetch of that sport returned, the
\* empty list included, and games of the sports not selected, or whose fetch
\* raised, are the ones held before.
C21_RefreshPerSport ==
    [][IsForceRefresh =>
          \A selected \in {session_state'.league_select} :
             /\ FetchedSports(fetches') = ValidSports(selected)
             /\ (selected = <<>>) => (fetches' = <<>>)
             /\ \A i \in 1..Len(fetches') :
                    fetches'[i].sport_key = SPORTS[fetches'[i].sport]
             /\ DOMAIN session_state'.games = DOMAIN session_state.games
             /\ \A sport \in DOMAIN session_state.games :
                    \A returned \in {ReturnedFor(fetches', sport)} :
                       session_state'.games[sport] =
                           IF returned = {}
                           THEN session_state.games[sport]
                           ELSE fetches'[Latest(returned)].result.value]_vars

\* a second refresh with NFL and NBA selected: the fetch of NFL raised and
\* NFL keeps the games of the first refresh, NBA was fetched all the same
\* and its games gave way to the empty list
C21_Witness ==
    /\ app_pc = "config"
    /\ runs = 2
    /\ session_state.last_refresh = 2
    /\ session_state.league_select = <<"NFL", "NBA">>
    /\ Len(fetches) = 2
    /\ fetches[1].sport = "NFL" /\ fetches[1].result.kind = "raise"
    /\ fetches[2].sport = "NBA" /\ fetches[2].result = Return(<<>>)
    /\ session_state.games.NFL # <<>>
    /\ session_state.games.NBA = <<>>

\* the session holds api_verified = True
IsVerified(ss) == "api_verified" \in DOMAIN ss /\ ss.api_verified = TRUE

\* every key of ss is a key of after with the same value
KeepsKeys(ss, after) ==
    \A key \in DOMAIN ss : key \in DOMAIN after /\ after[key] = ss[key]

\* C22: over the runs of a session the key is verified over the network
\* only while unverified.  The step _verify_api of a run calls verify_key
\* only with an API key other than "demo" and api_verified False in the
\* session; _init_session leaves every key the session already holds as it
\* is; and so a session once verified stays verified in every later step.
C22_VerifiedOnlyWhileUnverified ==
    [][/\ (app_pc = "verify" /\ verify_called') =>
              (api_key # "demo" /\ "api_verified" \in DOMAIN session_state
                                /\ session_state.api_verified = FALSE)
       /\ (app_pc = "init") => KeepsKeys(session_state, session_state')
       /\ IsVerified(session_state) =>
              (IsVerified(session_state') /\ ~(app_pc = "verify" /\ verify_called'))]_vars

\* the second run of a session with a real key, past _init_session and
\* _verify_api: the first run verified the key and refreshed NFL, the
\* second kept both and did not call verify_key
C22_Witness ==
    /\ runs = 1
    /\ app_pc = "sidebar"
    /\ api_key = "key-1"
    /\ IsVerified(session_state)
    /\ ~verify_called
    /\ session_state.last_refresh = 1
    /\ session_state.games.NFL # <<>>

-----------------------------------------------------------------------------
(* DataManager: the table games under save_game.                           *)

\* v and w read the same, whatever class they are stored in
SameValue(v, w) == v.text = w.text /\ ((v = Null) <=> (w = Null))

\* the row holds the values of game_data
HoldsValues(row, game_data) ==
    /\ SameValue(row.game_id, game_data.id)
    /\ SameValue(row.date, game_data.date)
    /\ SameValue(row.home_team, game_data.home_team)
    /\ SameValue(row.away_team, game_data.away_team)
    /\ SameValue(row.home_score, game_data.home_score)
    /\ SameValue(row.away_score, game_data.away_score)

\* the saves that committed a record of game id id
CommittedFor(id) ==
    {k \in 1..Len(saves) : saves[k].committed /\ SameValue(saves[k].game_data.id, id)}

\* the ids the statement is about: all of them, or all but NULL
IdsOfTable(with_null) ==
    {games_table[i].game_id : i \in 1..Len(games_table)} \ (IF with_null THEN {} ELSE {Null})

\* the table holds one row for each id in ids, with the values of the latest
\* save that committed a record of that id, and ids holds every id of which
\* a record was committed
OneRowPerId(with_null) ==
    /\ \A id \in IdsOfTable(with_null) :
           /\ Cardinality({i \in 1..Len(games_table) : games_table[i].game_id = id}) = 1
           /\ CommittedFor(id) # {}
           /\ \A i \in 1..Len(games_table) :
                  (games_table[i].game_id = id) =>
                      HoldsValues(games_table[i], saves[Latest(CommittedFor(id))].game_data)
    /\ \A k \in 1..Len(saves) :
           (saves[k].committed /\ (with_null \/ saves[k].game_data.id # Null)) =>
               \E id \in IdsOfTable(with_null) : SameValue(saves[k].game_data.id, id)

\* a save_game call was made in this step
IsSave == Len(saves') = Len(saves) + 1

\* a save of the record the save before it committed leaves the table as it was
SameRecordTwice(with_null) ==
    (/\ IsSave
     /\ saves # <<>>
     /\ saves[Len(saves)].committed
     /\ saves'[Len(saves')].committed
     /\ saves'[Len(saves')].game_data = saves[Len(saves)].game_data
     /\ with_null \/ saves[Len(saves)].game_data.id # Null)
        => games_table' = games_table

\* a save that fails is logged and changes nothing, and no save raises
FailureSwallowed ==
    IsSave =>
        /\ save_ret'.kind = "return"
        /\ ~saves'[Len(saves')].committed =>
               (logged' = logged + 1 /\ games_table' = games_table)
        /\ saves'[Len(saves')].committed => logged' = logged

\* C23: after any sequence of save_game calls the table games holds at most
\* one row per game id, with the values of the latest save of that id that
\* succeeded; saving a record a second time leaves the table as the first
\* save left it; a save that fails is logged and swallowed, the caller sees
\* no exception and the table is as before.
C23_OneRowPerGameId ==
    /\ []OneRowPerId(TRUE)
    /\ [][SameRecordTwice(TRUE) /\ FailureSwallowed]_vars

-----------------------------------------------------------------------------
(* evaluate_uploaded_results: the table outcomes.                          *)

\* evaluate_uploaded_results was called in this step
IsEvaluate == uploads' = uploads + 1

\* the call returned (None, message) without opening the database and left
\* the table as it was
RefusedWith(message) ==
    /\ eval_ret'.kind = "return"
    /\ eval_ret'.value.message = message
    /\ eval_ret'.value.inserted = None
    /\ ~connected'
    /\ outcomes_table' = outcomes_table

\* the frame of the file lacks one of player, prop, result
LacksRequired(file) ==
    file.kind = "csv" /\ file.parses
        /\ \E column \in {"player", "prop", "result"} : column \notin file.columns

\* the call went through: it returned a count
Succeeded == eval_ret'.kind = "return" /\ eval_ret'.value.message \notin
                 {"No file uploaded", "CSV must contain: player, prop, result"}

\* the table gained one row for each row of the file, in order, after the
\* rows it held
OneRowPerCsvRow(file) ==
    /\ Len(outcomes_table') = Len(outcomes_table) + Len(file.rows)
    /\ SubSeq(outcomes_table', 1, Len(outcomes_table)) = outcomes_table
    /\ \A k \in 1..Len(file.rows) :
           \A row \in {outcomes_table'[Len(outcomes_table) + k]} :
              /\ row.player = file.rows[k].player
              /\ row.prop = file.rows[k].prop
              /\ row.result = Text(Lower[file.rows[k].result.text])

\* C24: evaluate_uploaded_results writes nothing when validation fails.
\* Without a file it returns (None, "No file uploaded"); for a CSV lacking
\* one of the columns player, prop, result it returns (None, "CSV must
\* contain: player, prop, result"); in both cases the database is not
\* opened and the table outcomes stays as it was.  A call that succeeds has
\* added exactly one row per row of the CSV and returns their number.
C24_ValidationBeforeDatabase ==
    [][IsEvaluate =>
          /\ (uploaded_file'.kind = "none") => RefusedWith("No file uploaded")
          /\ LacksRequired(uploaded_file') =>
                 RefusedWith("CSV must contain: player, prop, result")
          /\ Succeeded =>
                 /\ OneRowPerCsvRow(uploaded_file')
                 /\ eval_ret'.value.inserted = Len(uploaded_file'.rows)
                 /\ connected']_vars

\* a second upload, of a CSV with two rows and no result column, refused
\* after a first upload recorded two rows: the table still holds those two
C24_Witness ==
    /\ uploads = 2
    /\ uploaded_file.kind = "csv"
    /\ uploaded_file.columns = {"player", "prop"}
    /\ Len(uploaded_file.rows) = 2
    /\ eval_ret.kind = "return"
    /\ eval_ret.value.message = "CSV must contain: player, prop, result"
    /\ ~connected
    /\ Len(outcomes_table) = 2
    /\ outcomes_table[1].result = Text("win")
    /\ outcomes_table[2].resolved_at = 1

====
